---- MODULE Spec2Model ----
(***************************************************************************)
(* Model of mukh's folder detection orchestrator                           *)
(* (BaseFaceDetector.detect_folder, _process_images_sequentially,          *)
(* _process_single_image_for_batch_worker) and of the batch executor it    *)
(* drives (MultiProcessor.process).  One behaviour is one detect_folder    *)
(* call: Init draws the call's arguments, the folder's contents and what   *)
(* detection does on every image; the actions are the steps of the call.   *)
(***************************************************************************)
EXTENDS Integers, Sequences, FiniteSets, Bags, TLC

\* ----------------------------------------------------------------- bounds
\* Number of file slots of the images folder.
MaxImages == 2
\* Largest number of faces a detector returns for one image.
MaxDets == 2
\* Largest explicit num_processes argument.
MaxProcs == 2
\* mp.cpu_count() of the host (the pool size when num_processes is None).
CpuCount == 2
\* Largest number of items handed to MultiProcessor.process.
MaxItems == 2
\* Largest number of elements of the array handed to json_to_csv.
MaxRows == 2
\* Largest number of FaceDetector.create calls in a row.
MaxCreates == 2
\* Largest number of frames of a video, and largest frame_interval.
MaxFrames == 4
MaxInterval == 3

\* ------------------------------------------------------------- value sets
\* An Optional[int] argument: None, or an integer.
None == [is_none |-> TRUE, value |-> 0]
Some(v) == [is_none |-> FALSE, value |-> v]

\* File names are a stem and an extension; the extensions cover an allowed
\* one, an allowed one in upper case, and one that is not allowed.
Exts == {".jpg", ".PNG", ".txt"}
File == [stem : 1..MaxImages, ext : Exts]

\* str.lower() on the extensions of the model.
Lower(s) ==
  CASE s = ".PNG" -> ".png"
    [] s = "MediaPipe" -> "mediapipe"
    [] OTHER -> s

\* Default of the image_extensions parameter.
image_extensions == {".jpg", ".jpeg", ".png", ".bmp", ".tiff"}

\* f.lower().endswith(image_extensions)
IsImage(f) == Lower(f.ext) \in image_extensions

\* Values of the num_processes argument: None, negative, 0, 1, more.
NumProcessesValues == {None} \cup {Some(v) : v \in -1..MaxProcs}

\* Values of the detector_model argument: the MediaPipe model (in two
\* spellings), another registered model, and a name no factory knows.
DetectorModels == {"mediapipe", "MediaPipe", "blazeface", "yolo"}

\* Mutant of KnownModels: the name is matched whatever its case.
KnownModelsAnyCase ==
  {"blazeface", "mediapipe", "ultralight", "BLAZEFACE", "MediaPipe"}

\* Names FaceDetector.create accepts (exact, case-sensitive match).
KnownModels == {"blazeface", "mediapipe", "ultralight"}

\* What processing one image does: detect() raises, or returns n
\* detections of which the bad-th (0: none) raises while it is converted.
Outcomes ==
  {o \in [raises : BOOLEAN, n : 0..MaxDets, bad : 0..MaxDets] :
     o.bad <= o.n /\ (o.raises => o.n = 0)}
NoOutcome == [raises |-> FALSE, n |-> 0, bad |-> 0]

Platforms == {"Darwin", "Linux", "Windows"}

VARIABLES
  images_folder,   \* "missing", "file" (exists, not a directory) or "dir"
  listing,         \* os.listdir(images_folder), a sequence of File
  outcome,         \* stem -> what detection does on that image
  num_processes,   \* argument
  detector_model,  \* argument
  save_json,       \* argument
  pc,              \* position of the call
  path,            \* execution path the call is on
  images,          \* the matching files
  all_detections,  \* the list being built, and returned at "done"
  progress,        \* updates of the sequential progress bar
  pending,         \* indices of worker_args not yet completed
  results,         \* per-item results in completion order
  pool,            \* "none", "running", "terminated", "abandoned"
  poolSize,        \* worker processes of the pool
  start_method,    \* start mode handed to MultiProcessor
  seqCalls,        \* stem -> self.detect invocations
  workerCalls,     \* stem -> detector invocations made by pool workers
  warned,          \* warnings emitted, in order
  jsonWrites,      \* lists written to json_path, in order
  error,           \* exception raised to the caller, or "none"
  returned,        \* what the caller received: given, and the list
  \* --- one MultiProcessor.process call
  mp,                \* a record, its fields named by the definitions below
  \* --- calls of json_to_csv, of the factories, and the choice of start mode
  lib,               \* a record, its fields named by the definitions below
  \* --- one extract_from_video call
  vid                \* a record, its fields named by the definitions below

\* The fields of mp.
mp_num_processes == mp.num_processes  \* self.num_processes
maintain_order == mp.maintain_order   \* self.maintain_order
has_initializer == mp.has_initializer \* self.initializer_func is not None
gather_results == mp.gather_results   \* argument
mp_items == mp.items                  \* number of items of the iterable
mp_fails == mp.fails                  \* the items on which function raises
mp_pc == mp.pc                        \* "idle", "running" (inside list(...)), "returned", "raised"
gen == mp.gen                         \* process_items(): "unstarted", "active", "finished", "failed", "closed"
mp_error == mp.error                  \* what left the generator: "none", "pool", "function"
mp_pool == mp.pool                    \* "none", "running", "terminated"
mp_poolSize == mp.poolSize            \* worker processes of the pool
mp_pending == mp.pending              \* items not yet applied
mp_completed == mp.completed          \* items the workers completed, in completion order
mp_yielded == mp.yielded              \* results the generator yielded, in order
mp_appliedBy == mp.appliedBy          \* item -> "none", "main" or "worker"
mp_initMain == mp.initMain            \* initializer runs in the calling process
mp_initWorkers == mp.initWorkers      \* worker processes that ran the initializer at start
mp_atReturn == mp.atReturn            \* items applied when process() returned
mp_again == mp.again                  \* the exhausted iterator was iterated again

\* The fields of lib.
json_data == lib.json_data        \* argument of json_to_csv
csv_file == lib.csv_file          \* the file at csv_path: exists, header, rows
csv_returned == lib.csv_returned  \* json_to_csv has returned
lm_model == lib.lm_model          \* argument of LandmarkExtractor.create
lm_result == lib.lm_result        \* what LandmarkExtractor.create gave
fd_model == lib.fd_model          \* argument of FaceDetector.create
fd_results == lib.fd_results      \* what the calls of FaceDetector.create gave, in order
host == lib.host                  \* platform.system()
mp_context == lib.mp_context      \* start mode chosen, and what the pool was created with

\* The fields of vid.
vid_frames == vid.vid_frames                \* number of frames cap.read() delivers
vid_loadable == vid.loadable                \* the video exists and opens
frame_interval == vid.frame_interval        \* argument
vid_save_annotated == vid.save_annotated    \* argument
vid_raises_at == vid.raises_at              \* frame on which extract_from_array raises (0: none)
vid_pc == vid.pc                            \* "start", "reading", "saving", "writing", "done", "raised"
frame_count == vid.frame_count              \* local of the running loop
all_frame_landmarks == vid.all_frame_landmarks  \* landmarks collected, in order
extracted == vid.extracted                  \* frames extract_from_array was called on, in order
cap == vid.cap                              \* capture of extract_from_video: "none", "open", "released"
out_frame_count == vid.out_frame_count      \* local of _save_annotated_video
landmarks_idx == vid.landmarks_idx          \* local of _save_annotated_video
out_frames == vid.out_frames                \* frames written to the annotated video, in order
out_cap == vid.out_cap                      \* capture of _save_annotated_video
out_writer == vid.out_writer                \* cv2.VideoWriter: "none", "open", "released"

dfVars == <<images_folder, listing, outcome, num_processes, detector_model,
          save_json, pc, path, images, all_detections, progress, pending,
          results, pool, poolSize, start_method, seqCalls, workerCalls,
          warned, jsonWrites, error, returned>>

mpVars == <<mp>>

libVars == <<lib>>

vidVars == <<vid>>

vars == <<dfVars, mpVars, libVars, vidVars>>

inputs == <<images_folder, listing, outcome, num_processes, detector_model,
            save_json>>

parallelVars == <<pending, results, pool, poolSize, start_method, workerCalls>>

\* --------------------------------------------------------- pure operators
\* The file a slot holds: an image (lower-case extension in odd slots,
\* upper-case in even ones) or a file that is no image.
FileIn(k, kind) ==
  [stem |-> k,
   ext |-> IF kind = "other" THEN ".txt" ELSE IF k % 2 = 1 THEN ".jpg" ELSE ".PNG"]

\* The folder's listing for a choice of what each slot holds ("absent",
\* "image" or "other"), stems ascending.
RECURSIVE ListingOf(_, _)
ListingOf(slot, k) ==
  IF k = 0 THEN <<>>
  ELSE IF slot[k] = "absent" THEN ListingOf(slot, k - 1)
       ELSE Append(ListingOf(slot, k - 1), FileIn(k, slot[k]))

\* [f for f in os.listdir(images_folder) if f.lower().endswith(image_extensions)]
FilterImages(files) == SelectSeq(files, IsImage)

\* Mutant of NoValidImages: the emptiness check is missing.
NoValidImagesUnchecked(imgs) == FALSE

\* if not images: raise ValueError
NoValidImages(imgs) == imgs = <<>>

\* detector_model.lower() == "mediapipe" and (num_processes is None or num_processes > 1)
MediaPipeOverride(model, np) ==
  Lower(model) = "mediapipe" /\ (np.is_none \/ np.value > 1)

\* Mutant of SequentialRequested: only 0 is taken as sequential.
SequentialOnlyForZero(np) == ~np.is_none /\ np.value = 0

\* num_processes == 0 or num_processes == 1
SequentialRequested(np) == ~np.is_none /\ (np.value = 0 \/ np.value = 1)

\* start_method = "spawn" if platform.system() == "Darwin" else "fork"
StartMethodFor(platform) == IF platform = "Darwin" THEN "spawn" ELSE "fork"

\* mp.get_context(start_mode).Pool(num_processes, ...) raises ValueError for
\* a start method the platform lacks and for a process count below 1.
PoolCreationRaises(platform, method, np) ==
  \/ platform = "Windows" /\ method # "spawn"
  \/ ~np.is_none /\ np.value < 1

\* Mutant of PoolProcesses: cpu_count() workers whatever was asked.
PoolProcessesCpuCount(np) == CpuCount

\* Worker processes of the pool: num_processes, or cpu_count() for None.
PoolProcesses(np) == IF np.is_none THEN CpuCount ELSE np.value

\* detector.detect(image_path): the detections of one image.
Detect(f) == [k \in 1..outcome[f.stem].n |-> [src |-> f, k |-> k]]

\* Mutant of ToEntry: the entry is tagged with the first image's name.
ToEntryFirstName(image_filename, detection) ==
  [image_name |-> images[1], det |-> detection]

\* The dictionary built from one detection.
ToEntry(image_filename, detection) ==
  [image_name |-> image_filename, det |-> detection]

\* Mutant of AnnotatedWrites: the image is annotated whatever the flag.
AnnotatedWritesAlways(save_annotated, by, image_filename) ==
  {[by |-> by, stem |-> image_filename.stem]}

\* detect(..., save_annotated=save_annotated, output_folder=image_output_folder):
\* the process that runs detect writes the annotated image when asked to and
\* detection did not raise.
AnnotatedWrites(save_annotated, by, image_filename) ==
  IF save_annotated /\ ~outcome[image_filename.stem].raises
    THEN {[by |-> by, stem |-> image_filename.stem]}
    ELSE {}

\* One iteration of the loop of _process_images_sequentially: the entries
\* are appended to all_detections one by one inside the try block, so the
\* ones appended before an exception stay.
SeqLoopBody(acc, image_filename) ==
  LET o == outcome[image_filename.stem]
      dets == Detect(image_filename)
      upto == IF o.bad = 0 THEN o.n ELSE o.bad - 1
  IN IF o.raises THEN acc
     ELSE acc \o [k \in 1..upto |-> ToEntry(image_filename, dets[k])]

\* FaceDetector.create(detector_class_name) raises ValueError.
CreateRaises(detector_class_name) == detector_class_name \notin KnownModels

\* _process_single_image_for_batch_worker: the entries are collected in a
\* local list that is returned only when nothing raised.
WorkerReturn(image_filename, detector_class_name) ==
  LET o == outcome[image_filename.stem]
      dets == Detect(image_filename)
  IN IF CreateRaises(detector_class_name) \/ o.raises \/ o.bad # 0 THEN <<>>
     ELSE [k \in 1..o.n |-> ToEntry(image_filename, dets[k])]

\* Mutant of Consolidate: the list is assigned, not extended.
ConsolidateLast(rs) == IF rs = <<>> THEN <<>> ELSE rs[Len(rs)]

\* for result in results: if result: all_detections.extend(result)
RECURSIVE Consolidate(_)
Consolidate(rs) ==
  IF rs = <<>> THEN <<>>
  ELSE IF Head(rs) # <<>> THEN Head(rs) \o Consolidate(Tail(rs))
       ELSE Consolidate(Tail(rs))

\* Mutant of FallbackDetections: the partial results are kept.
FallbackKeepsPartial(rs) == Consolidate(rs)

\* The list the sequential fallback starts from: _process_images_sequentially
\* takes no partial result and begins with all_detections = [].
FallbackDetections(rs) == <<>>

\* Mutant of Remaining: the completed item stays in the work list.
RemainingKeepsItem(pend, idx) == pend

\* The worker_args still to complete after item idx has completed.
Remaining(pend, idx) == pend \ {idx}

\* imap_unordered hands the items out in order to poolSize workers: an item
\* can complete next when fewer than poolSize unfinished items precede it.
InFlight(pend, size) == {j \in pend : Cardinality({h \in pend : h < j}) < size}

\* The whole of _process_images_sequentially's loop on a list of images.
RECURSIVE SequentialRun(_)
SequentialRun(imgs) ==
  IF imgs = <<>> THEN <<>>
  ELSE SeqLoopBody(SequentialRun(SubSeq(imgs, 1, Len(imgs) - 1)), imgs[Len(imgs)])

\* The annotated images on disk: one per detect call that was asked to
\* save and did not raise, written by the process that made the call (the
\* pool's workers at lines 60-65, the orchestrator's loop at lines 339-344).
ArtifactWrites(save_annotated) ==
  UNION ({AnnotatedWrites(save_annotated, "worker", images[k]) :
            k \in {h \in DOMAIN images : workerCalls[images[h].stem] >= 1}}
         \cup {AnnotatedWrites(save_annotated, "main", images[k]) :
            k \in {h \in DOMAIN images : seqCalls[images[h].stem] >= 1}})

\* -------------------------------------------------------------- the call
Slots == [1..MaxImages -> {"absent", "image", "other"}]

\* No MultiProcessor.process call is under way.
MPIdle ==
  mp = [num_processes |-> None, maintain_order |-> FALSE,
        has_initializer |-> FALSE, gather_results |-> TRUE, items |-> 0,
        fails |-> {}, pc |-> "idle", gen |-> "unstarted", error |-> "none",
        pool |-> "none", poolSize |-> 0, pending |-> {}, completed |-> <<>>,
        yielded |-> <<>>, appliedBy |-> [i \in 1..MaxItems |-> "none"],
        initMain |-> 0, initWorkers |-> 0, atReturn |-> 0, again |-> FALSE]

\* An absent file, and the result of a call not made.
NoFile == [exists |-> FALSE, header |-> <<>>, rows |-> <<>>]
NoResult == [kind |-> "none", model |-> "", available |-> <<>>, instance |-> 0]
NoContext == [method |-> "none", created_with |-> "none"]

\* None of json_to_csv, the factories and the start mode choice is under way.
LibIdle ==
  lib = [json_data |-> <<>>, csv_file |-> NoFile, csv_returned |-> FALSE,
         lm_model |-> "", lm_result |-> NoResult,
         fd_model |-> [type |-> "str", text |-> ""], fd_results |-> <<>>,
         host |-> "Linux", mp_context |-> NoContext]

\* No extract_from_video call is under way.
VidIdle ==
  vid = [vid_frames |-> 0, loadable |-> FALSE, frame_interval |-> 1,
         save_annotated |-> FALSE, raises_at |-> 0, pc |-> "start",
         frame_count |-> 0, all_frame_landmarks |-> <<>>, extracted |-> <<>>,
         cap |-> "none", out_frame_count |-> 0, landmarks_idx |-> 0,
         out_frames |-> <<>>, out_cap |-> "none", out_writer |-> "none"]

Init ==
  /\ MPIdle
  /\ LibIdle
  /\ VidIdle
  /\ images_folder \in {"missing", "file", "dir"}
  /\ \E slot \in Slots :
       /\ listing = IF images_folder = "dir" THEN ListingOf(slot, MaxImages) ELSE <<>>
       /\ images_folder # "dir" => \A k \in 1..MaxImages : slot[k] = "absent"
       /\ outcome \in [1..MaxImages -> Outcomes]
       /\ \A k \in 1..MaxImages :
            slot[k] # "image" => outcome[k] = NoOutcome
  /\ num_processes \in NumProcessesValues
  /\ detector_model \in DetectorModels
  /\ save_json \in BOOLEAN
  /\ returned = [given |-> FALSE, value |-> <<>>]
  /\ pc = "start"
  /\ path = "none"
  /\ images = <<>>
  /\ all_detections = <<>>
  /\ progress = 0
  /\ pending = {}
  /\ results = <<>>
  /\ pool = "none"
  /\ poolSize = 0
  /\ start_method = "none"
  /\ seqCalls = [k \in 1..MaxImages |-> 0]
  /\ workerCalls = [k \in 1..MaxImages |-> 0]
  /\ warned = <<>>
  /\ jsonWrites = <<>>
  /\ error = "none"

\* raise: the exception leaves detect_folder.
Raise(exc) ==
  /\ pc' = "raised"
  /\ error' = exc

\* Lines 186-197: the folder must exist and hold at least one image.
Validate ==
  /\ UNCHANGED <<mpVars, libVars, vidVars>>
  /\ pc = "start"
  /\ IF images_folder = "missing"
       THEN Raise("ValueError") /\ UNCHANGED images
     ELSE IF images_folder = "file"
       THEN Raise("NotADirectoryError") /\ UNCHANGED images
     ELSE IF NoValidImages(FilterImages(listing))
       THEN Raise("ValueError") /\ UNCHANGED images
     ELSE /\ images' = FilterImages(listing)
          /\ pc' = "mode"
          /\ UNCHANGED error
  /\ UNCHANGED <<inputs, path, all_detections, progress, parallelVars,
                 seqCalls, warned, jsonWrites, returned>>

\* Lines 199-232: MediaPipe forced sequential, sequential, or parallel attempt.
SelectMode ==
  /\ UNCHANGED <<mpVars, libVars, vidVars>>
  /\ pc = "mode"
  /\ IF MediaPipeOverride(detector_model, num_processes)
       THEN /\ warned' = Append(warned, "mediapipe")
            /\ path' = "mediapipe"
            /\ pc' = "sequential"
     ELSE IF SequentialRequested(num_processes)
       THEN /\ path' = "sequential"
            /\ pc' = "sequential"
            /\ UNCHANGED warned
     ELSE /\ path' = "parallel"
          /\ pc' = "parallel"
          /\ UNCHANGED warned
  /\ UNCHANGED <<inputs, images, all_detections, progress, parallelVars,
                 seqCalls, jsonWrites, error, returned>>

\* Mutant of Fallback: the except branch lets the failure out of the call.
FallbackPropagates ==
  /\ pc' = "raised"
  /\ UNCHANGED <<warned, path, all_detections, progress>>

\* Mutant of Fallback: the except branch tries the pool again.
FallbackRetriesParallel ==
  /\ warned' = Append(warned, "multiprocessing_failed")
  /\ path' = "parallel"
  /\ pc' = "parallel"
  /\ all_detections' = <<>>
  /\ progress' = 0

\* Lines 274-291 and 321: the except branch warns and runs
\* _process_images_sequentially on the whole list.
Fallback ==
  /\ warned' = Append(warned, "multiprocessing_failed")
  /\ path' = "fallback"
  /\ pc' = "sequential"
  /\ all_detections' = FallbackDetections(results)
  /\ progress' = 0

\* Lines 234-264, parallel.py 76-79: the start method is chosen and
\* process() creates the pool, which may raise.
StartPool ==
  /\ UNCHANGED <<mpVars, libVars, vidVars>>
  /\ pc = "parallel"
  /\ pool = "none"
  /\ \E platform \in Platforms, oserror \in BOOLEAN :
       /\ start_method' = StartMethodFor(platform)
       /\ IF PoolCreationRaises(platform, start_method', num_processes) \/ oserror
            THEN /\ Fallback
                 /\ UNCHANGED <<pending, results, pool, poolSize>>
            ELSE /\ pool' = "running"
                 /\ poolSize' = PoolProcesses(num_processes)
                 /\ pending' = 1..Len(images)
                 /\ results' = <<>>
                 /\ UNCHANGED <<pc, path, warned, all_detections, progress>>
  /\ UNCHANGED <<inputs, images, seqCalls, workerCalls, jsonWrites, error,
                 returned>>

\* parallel.py 86-91: one more item's result arrives from the pool, in
\* completion order; the worker ran _process_single_image_for_batch_worker.
WorkerCompletes ==
  /\ UNCHANGED <<mpVars, libVars, vidVars>>
  /\ pc = "parallel"
  /\ pool = "running"
  /\ \E idx \in InFlight(pending, poolSize) :
       /\ results' = Append(results, WorkerReturn(images[idx], detector_model))
       /\ pending' = Remaining(pending, idx)
       /\ workerCalls' =
            IF CreateRaises(detector_model) THEN workerCalls
            ELSE [workerCalls EXCEPT ![images[idx].stem] = @ + 1]
  /\ UNCHANGED <<inputs, pc, path, images, all_detections, progress, pool,
                 poolSize, start_method, seqCalls, warned, jsonWrites, error,
                 returned>>

\* An exception leaves processor.process while the pool runs; process_items
\* has no finally, so pool.terminate() is skipped.
ExecutionRaises ==
  /\ UNCHANGED <<mpVars, libVars, vidVars>>
  /\ pc = "parallel"
  /\ pool = "running"
  /\ pool' = "abandoned"
  /\ Fallback
  /\ UNCHANGED <<inputs, images, pending, results, poolSize, start_method,
                 seqCalls, workerCalls, jsonWrites, error, returned>>

\* parallel.py 92-93 and lines 266-272: every result is in, the pool is
\* terminated and the results are consolidated.
ParallelCompletes ==
  /\ UNCHANGED <<mpVars, libVars, vidVars>>
  /\ pc = "parallel"
  /\ pool = "running"
  /\ pending = {}
  /\ pool' = "terminated"
  /\ all_detections' = Consolidate(results)
  /\ pc' = "save"
  /\ UNCHANGED <<inputs, path, images, progress, pending, results, poolSize,
                 start_method, seqCalls, workerCalls, warned, jsonWrites, error,
                 returned>>

\* Mutant of SaveAndReturn: the file is written whatever save_json is.
SaveAndReturnAlwaysWrites ==
  /\ jsonWrites' = Append(jsonWrites, all_detections)
  /\ returned' = [given |-> TRUE, value |-> all_detections]
  /\ pc' = "done"
  /\ UNCHANGED error

\* if save_json: self._save_folder_detections_to_json(all_detections, json_path)
\* return all_detections
SaveAndReturn ==
  IF save_json
    THEN \E writable \in BOOLEAN :
           IF writable
             THEN /\ jsonWrites' = Append(jsonWrites, all_detections)
                  /\ returned' = [given |-> TRUE, value |-> all_detections]
                  /\ pc' = "done"
                  /\ UNCHANGED error
             ELSE Raise("OSError") /\ UNCHANGED <<jsonWrites, returned>>
    ELSE /\ returned' = [given |-> TRUE, value |-> all_detections]
         /\ pc' = "done"
         /\ UNCHANGED <<jsonWrites, error>>

\* Mutant of SaveParallel: the write sits inside the try block, so its
\* failure is caught by the except branch.
SaveParallelInsideTry ==
  /\ UNCHANGED <<mpVars, libVars, vidVars>>
  /\ pc = "save"
  /\ \E writable \in BOOLEAN :
       IF save_json /\ ~writable
         THEN /\ Fallback
              /\ UNCHANGED <<jsonWrites, returned>>
         ELSE /\ jsonWrites' = IF save_json THEN Append(jsonWrites, all_detections)
                                ELSE jsonWrites
              /\ returned' = [given |-> TRUE, value |-> all_detections]
              /\ pc' = "done"
              /\ UNCHANGED <<warned, path, all_detections, progress>>
  /\ UNCHANGED <<inputs, images, parallelVars, seqCalls, error>>

\* Lines 293-297.
SaveParallel ==
  /\ UNCHANGED <<mpVars, libVars, vidVars>>
  /\ pc = "save"
  /\ SaveAndReturn
  /\ UNCHANGED <<inputs, path, images, all_detections, progress, parallelVars,
                 seqCalls, warned>>

\* Lines 323-361: one image of the sequential loop.
SeqStep ==
  /\ UNCHANGED <<mpVars, libVars, vidVars>>
  /\ pc = "sequential"
  /\ progress < Len(images)
  /\ LET image_filename == images[progress + 1] IN
       /\ all_detections' = SeqLoopBody(all_detections, image_filename)
       /\ seqCalls' = [seqCalls EXCEPT ![image_filename.stem] = @ + 1]
  /\ progress' = progress + 1
  /\ UNCHANGED <<inputs, pc, path, images, parallelVars, warned, jsonWrites,
                 error, returned>>

\* Lines 363-367.
SeqReturn ==
  /\ UNCHANGED <<mpVars, libVars, vidVars>>
  /\ pc = "sequential"
  /\ progress = Len(images)
  /\ SaveAndReturn
  /\ UNCHANGED <<inputs, path, images, all_detections, progress, parallelVars,
                 seqCalls, warned>>

Next ==
  \/ Validate
  \/ SelectMode
  \/ StartPool
  \/ WorkerCompletes
  \/ ExecutionRaises
  \/ ParallelCompletes
  \/ SaveParallel
  \/ SeqStep
  \/ SeqReturn

Spec == Init /\ [][Next]_vars

\* ------------------------------------------------------------ the claims
\* What the claims speak of.
ImageSet == {images[i] : i \in DOMAIN images}
Tags(list) == {list[i].image_name : i \in DOMAIN list}
Count(list, f) == Cardinality({i \in DOMAIN list : list[i].image_name = f})
BagOf(list) == [e \in {list[i] : i \in DOMAIN list} |->
                  Cardinality({i \in DOMAIN list : list[i] = e})]
\* Processing the image raised on the path the returned list comes from.
RaisedOn(f) ==
  \/ outcome[f.stem].raises
  \/ outcome[f.stem].bad # 0
  \/ path = "parallel" /\ CreateRaises(detector_model)
NoDetectorCall == \A k \in 1..MaxImages : seqCalls[k] = 0 /\ workerCalls[k] = 0

\* C1: in every detect_folder run an image whose processing raises
\* contributes zero entries to the returned list, and every other image
\* contributes all of its entries.
C1_FailureIsolated ==
  pc = "done" =>
    \A f \in ImageSet :
      Count(all_detections, f) = IF RaisedOn(f) THEN 0 ELSE outcome[f.stem].n

\* C2: after a failed parallel attempt the returned list and the written
\* JSON are those of a fully sequential run of the same images.
C2_FallbackEqualsSequential ==
  (path = "fallback" /\ pc = "done") =>
    /\ all_detections = SequentialRun(images)
    /\ jsonWrites = IF save_json THEN <<SequentialRun(images)>> ELSE <<>>

\* C2 witness: a fallback that followed a parallel attempt in which a worker
\* had already returned entries has returned a non-empty list.
C2_Witness ==
  /\ path = "fallback"
  /\ pc = "done"
  /\ Consolidate(results) # <<>>
  /\ all_detections # <<>>
  /\ save_json

\* C3: with the same per-image outcomes, the parallel path returns the same
\* multiset of entries as the sequential path.
C3_SameMultiset ==
  (path = "parallel" /\ pc = "done" /\ ~CreateRaises(detector_model)) =>
    BagOf(all_detections) = BagOf(SequentialRun(images))

\* C4 as stated: over the whole call the detector is invoked at most once
\* per image.
C4_NeverProcessedTwice ==
  \A k \in 1..MaxImages : seqCalls[k] + workerCalls[k] <= 1

\* C4 as amended: the detector is invoked at most once per image by the
\* pool's workers and at most once per image by the sequential loop, and an
\* image is processed twice only when the sequential fallback re-runs a
\* batch whose failed parallel attempt had already processed it.
C4_OncePerAttempt ==
  \A k \in 1..MaxImages :
    /\ seqCalls[k] <= 1
    /\ workerCalls[k] <= 1
    /\ seqCalls[k] + workerCalls[k] = 2 => path = "fallback"

\* C4 witness: a call is done in which an image was processed by a worker
\* and again by the fallback.
C4_Witness ==
  /\ pc = "done"
  /\ \E k \in 1..MaxImages : seqCalls[k] = 1 /\ workerCalls[k] = 1

\* C5: every entry is tagged with the image its detection came from, in
\* the results as they arrive and in the list built from them, and the
\* entries of one image are contiguous in that list.
C5_Attribution ==
  /\ \A i \in DOMAIN all_detections :
       all_detections[i].image_name = all_detections[i].det.src
  /\ \A r \in DOMAIN results : \A i \in DOMAIN results[r] :
       results[r][i].image_name = results[r][i].det.src
  /\ \A i, j \in DOMAIN all_detections :
       (i < j /\ all_detections[i].image_name = all_detections[j].image_name)
         => \A h \in i..j : all_detections[h].image_name = all_detections[i].image_name

\* C5 witness: a parallel run is done whose results arrived out of
\* submission order, with several entries per image.
C5_Witness ==
  /\ pc = "done"
  /\ path = "parallel"
  /\ Len(images) >= 2
  /\ Len(all_detections) >= 3
  /\ all_detections[1].image_name = images[2]
  /\ all_detections[Len(all_detections)].image_name = images[1]

C7_MediaPipeNeverParallel ==
  Lower(detector_model) = "mediapipe" =>
    /\ pc \notin {"parallel", "save"}
    /\ path \notin {"parallel", "fallback"}
    /\ pool = "none"
    /\ path = "mediapipe" => warned = <<"mediapipe">>

\* C8: with num_processes 0 or 1 every image is processed one at a time by
\* the calling process, no pool exists, and the progress bar has advanced
\* once per image when the call returns.
C8_ZeroOrOneSequential ==
  (~num_processes.is_none /\ num_processes.value \in {0, 1}) =>
    /\ pool = "none"
    /\ pc \notin {"parallel", "save"}
    /\ path \in {"none", "sequential"}
    /\ \A k \in 1..MaxImages : workerCalls[k] = 0
    /\ progress <= Len(images)
    /\ \A i \in DOMAIN images :
         seqCalls[images[i].stem] = IF i <= progress THEN 1 ELSE 0
    /\ pc = "done" => progress = Len(images)

\* C8 witness: a call with num_processes = 1 on a folder of several images
\* has returned.
C8_Witness ==
  /\ pc = "done"
  /\ num_processes = Some(1)
  /\ Len(images) >= 2
  /\ progress = Len(images)

\* C9: for a folder that does not exist or holds no file with an allowed
\* extension the call raises before anything is processed, created or
\* written, and never returns.
C9_InvalidFolderRaisesFirst ==
  (images_folder = "missing" \/ \A i \in DOMAIN listing : ~IsImage(listing[i])) =>
    /\ pc \in {"start", "raised"}
    /\ pc = "raised" => error \in {"ValueError", "NotADirectoryError"}
    /\ NoDetectorCall
    /\ progress = 0
    /\ pool = "none"
    /\ jsonWrites = <<>>

\* C9 witness: the call has raised on a folder that exists and holds files,
\* none of them an image.
C9_Witness ==
  /\ pc = "raised"
  /\ images_folder = "dir"
  /\ listing # <<>>
  /\ error = "ValueError"

\* C10: an unknown model identity is raised to the caller at once and no
\* image is processed, in every execution mode.
C10_UnknownModelIsFatal ==
  Lower(detector_model) \notin KnownModels =>
    /\ pc \notin {"save", "done"}
    /\ NoDetectorCall
    /\ results = <<>>

\* The folder exists and holds at least one image.
ValidFolder == images_folder = "dir" /\ \E i \in DOMAIN listing : IsImage(listing[i])
\* Every image has been through the path the call is on.
AllProcessed ==
  IF path = "parallel"
    THEN pending = {} /\ Len(results) = Len(images)
    ELSE progress = Len(images)

\* C11: for a valid non-empty folder the call is never left by an exception
\* other than the sink's, whatever fails on the images or in the pool, and
\* it never stops before it has returned or the sink has failed.
C11_FailuresAbsorbed ==
  ValidFolder =>
    /\ error \in {"none", "OSError"}
    /\ pc = "raised" => error = "OSError"
    /\ pc \notin {"done", "raised"} => ENABLED Next

\* C11 witness: a call has returned after the pool failed and an image
\* failed in the fallback.
C11_Witness ==
  /\ pc = "done"
  /\ path = "fallback"
  /\ \E f \in ImageSet : outcome[f.stem].raises
  /\ \E f \in ImageSet : ~RaisedOn(f)

\* C12: when writing the consolidated JSON fails, aggregation is complete
\* and the caller still holds the aggregated list.
C12_ResultsKeptOnSinkError ==
  (pc = "raised" /\ error = "OSError") =>
    /\ AllProcessed
    /\ returned.given
    /\ returned.value = all_detections

\* C13: on every path the consolidated JSON is written at most once, only
\* when save_json is set and only after every image has been processed, and
\* a call that returns has written exactly the list it returns when
\* save_json is set and nothing otherwise.
C13_WrittenOnce ==
  /\ Len(jsonWrites) <= 1
  /\ jsonWrites # <<>> => (save_json /\ pc = "done" /\ AllProcessed)
  /\ pc = "done" =>
       /\ returned.given
       /\ AllProcessed
       /\ jsonWrites = IF save_json THEN <<returned.value>> ELSE <<>>

\* C13 witness: a successful parallel run has written its non-empty list.
C13_Witness ==
  /\ pc = "done"
  /\ path = "parallel"
  /\ save_json
  /\ jsonWrites # <<>>
  /\ returned.value # <<>>

\* C14 as stated: every file is written by the orchestrator, after
\* aggregation; workers write nothing.
C14_SingleWriter ==
  \A save_annotated \in BOOLEAN :
    /\ \A w \in ArtifactWrites(save_annotated) : w.by = "main"
    /\ ArtifactWrites(save_annotated) # {} => pc \in {"save", "done", "raised"}

\* C14 as amended: the consolidated file is written by the orchestrator
\* only, after aggregation; annotated images are written only when
\* save_annotated is set, by the process that ran detection on the image:
\* the orchestrator on the sequential paths, a pool worker in parallel mode.
C14_WritersAmended ==
  /\ jsonWrites # <<>> => (pc = "done" /\ AllProcessed)
  /\ ArtifactWrites(FALSE) = {}
  /\ \A w \in ArtifactWrites(TRUE) :
       /\ ~outcome[w.stem].raises
       /\ w.by = "worker" => (path \in {"parallel", "fallback"} /\ pool # "none")
       /\ w.by = "main" => (path \in {"sequential", "mediapipe", "fallback"} /\ progress >= 1)

\* C14 witness: a parallel run in which two workers wrote annotated images
\* has written its consolidated file.
C14_Witness ==
  /\ pc = "done"
  /\ path = "parallel"
  /\ jsonWrites # <<>>
  /\ Cardinality({w \in ArtifactWrites(TRUE) : w.by = "worker"}) >= 2

\* The state of the call's state machine.
Phase ==
  CASE pc = "start" -> "VALIDATING"
    [] pc = "mode" -> "MODE_SELECTION"
    [] pc = "parallel" -> "PARALLEL_RUN"
    [] pc = "sequential" /\ path = "fallback" -> "SEQUENTIAL_FALLBACK"
    [] pc = "sequential" /\ path # "fallback" -> "SEQUENTIAL_RUN"
    [] pc = "save" -> "AGGREGATING"
    [] OTHER -> "DONE"
PhaseEdges ==
  {<<"VALIDATING", "MODE_SELECTION">>, <<"VALIDATING", "DONE">>,
   <<"MODE_SELECTION", "SEQUENTIAL_RUN">>, <<"MODE_SELECTION", "PARALLEL_RUN">>,
   <<"PARALLEL_RUN", "SEQUENTIAL_FALLBACK">>, <<"PARALLEL_RUN", "AGGREGATING">>,
   <<"SEQUENTIAL_RUN", "DONE">>, <<"SEQUENTIAL_FALLBACK", "DONE">>,
   <<"AGGREGATING", "DONE">>}
FallbackCount ==
  Cardinality({i \in DOMAIN warned : warned[i] = "multiprocessing_failed"})

\* C15: every step of a call stays in its state or follows an edge of
\* VALIDATING -> MODE_SELECTION -> {SEQUENTIAL_RUN | PARALLEL_RUN} ->
\* SEQUENTIAL_FALLBACK -> AGGREGATING -> DONE (the edges are acyclic, so no
\* state is entered twice), and the fallback happens at most once.
C15_StateMachine ==
  [][/\ (Phase' = Phase \/ <<Phase, Phase'>> \in PhaseEdges)
     /\ FallbackCount' <= 1]_vars

\* C15 witness: a call is over whose pool failed while running and whose
\* fallback then failed on an image.
C15_Witness ==
  /\ pc \in {"done", "raised"}
  /\ path = "fallback"
  /\ pool = "abandoned"
  /\ \E f \in ImageSet : RaisedOn(f)

\* The detector a pool worker runs: FaceDetector.create(detector_class_name),
\* built with no arguments; detector_kwargs is not used.
WorkerDetector(detector_class_name, detector_kwargs) ==
  [model |-> detector_class_name, threshold |-> "default"]

\* The detector objects detect_folder may be called on (the sequential
\* path runs self.detect): any registered class, with the default or with
\* a configured confidence threshold.
SelfDetectors == [model : KnownModels, threshold : {"default", "configured"}]

\* C16: when exactly one image's processing raises, every other image
\* contributes its entries and the result shows exactly one lost item.
C16_OneFailureCounted ==
  (pc = "done" /\ Cardinality({f \in ImageSet : RaisedOn(f)}) = 1) =>
    /\ \A f \in ImageSet : ~RaisedOn(f) => Count(returned.value, f) = outcome[f.stem].n
    /\ Len(images) - Cardinality(Tags(returned.value)) = 1

\* C26: in the list a run returns, an image has either all the entries of
\* its detections or none.
C26_PerImageAtomic ==
  pc = "done" =>
    \A f \in ImageSet :
      Count(returned.value, f) \in {0, outcome[f.stem].n}

\* C27: whatever detector detect_folder is called on, an image processed by
\* a pool worker is processed by a detector of that model and threshold.
C27_SameDetector ==
  \A self \in SelfDetectors :
    \A f \in ImageSet :
      workerCalls[f.stem] >= 1 =>
        WorkerDetector(detector_model, <<>>) = self

\* C28: a failed write of the consolidated JSON leaves detect_folder at
\* once: nothing follows it, no image is detected after it, and the
\* fallback is entered only from a pool that failed, never after the
\* parallel run completed and only the write was left.
C28_WriteFailurePropagates ==
  /\ path = "fallback" => pool # "terminated"
  /\ \A k \in 1..MaxImages : seqCalls[k] <= 1 /\ workerCalls[k] <= 1
  /\ error = "OSError" =>
       /\ pc = "raised"
       /\ ~ENABLED Next
       /\ jsonWrites = <<>>
       /\ AllProcessed
       /\ FallbackCount = IF path = "fallback" THEN 1 ELSE 0
       /\ path = "parallel" => \A k \in 1..MaxImages : seqCalls[k] = 0

\* The write failed after a parallel run in which workers detected images.
C28_Witness ==
  /\ error = "OSError"
  /\ path = "parallel"
  /\ pool = "terminated"
  /\ \E f \in ImageSet : workerCalls[f.stem] >= 1

\* ------------------------------------------- MultiProcessor.process
\* The detect_folder call is not under way.
DFIdle ==
  /\ images_folder = "missing"
  /\ listing = <<>>
  /\ outcome = [k \in 1..MaxImages |-> NoOutcome]
  /\ num_processes = None
  /\ detector_model = "blazeface"
  /\ save_json = FALSE
  /\ pc = "validate"
  /\ path = "none"
  /\ images = <<>>
  /\ all_detections = <<>>
  /\ progress = 0
  /\ pending = {}
  /\ results = <<>>
  /\ pool = "none"
  /\ poolSize = 0
  /\ start_method = "none"
  /\ seqCalls = [k \in 1..MaxImages |-> 0]
  /\ workerCalls = [k \in 1..MaxImages |-> 0]
  /\ warned = FALSE
  /\ jsonWrites = <<>>
  /\ error = "none"
  /\ returned = [given |-> FALSE, value |-> <<>>]

\* The items of the iterable, in the order of enumeration.
Items == 1..mp_items

\* function(item): the result of one item.
Result(item) == [of |-> item]

\* What the caller gets when every item succeeds and order is kept.
OrderedResults == [i \in 1..mp_items |-> Result(i)]

\* self.num_processes == 0.
Synchronous(np) == ~np.is_none /\ np.value = 0

\* Mutant of Materializes: the generator is returned whatever the flag.
MaterializesNever(gather) == FALSE

\* list(process_items()) if gather_results else process_items().
Materializes(gather) == gather

\* The generator body runs: inside list(...) of the call, or in the
\* consumer's iteration after the call returned the generator.
Driven ==
  \/ Materializes(gather_results) /\ mp_pc = "running"
  \/ ~Materializes(gather_results) /\ mp_pc = "returned"

\* Items the function was applied to.
Applied == {i \in 1..MaxItems : mp_appliedBy[i] # "none"}

\* Mutant of NextToYield: completion order whatever maintain_order says.
NextToYieldCompletion(order, completed, k) ==
  IF k < Len(completed) THEN completed[k + 1] ELSE 0

\* pool.imap if self.maintain_order else pool.imap_unordered: the item whose
\* result is handed over after k results, 0 while the iterator blocks.
NextToYield(order, completed, k) ==
  IF order
    THEN IF \E j \in DOMAIN completed : completed[j] = k + 1 THEN k + 1 ELSE 0
    ELSE IF k < Len(completed) THEN completed[k + 1] ELSE 0

\* An exception leaves the generator: through list(...) out of the call, or
\* into the consumer's iteration.
GenRaises(m, kind) ==
  [m EXCEPT !.gen = "failed",
            !.error = kind,
            !.pc = IF Materializes(m.gather_results) THEN "raised" ELSE @]

\* Iterating a generator that is over: nothing.
IterateOver(g) == <<>>

MPInit ==
  /\ DFIdle
  /\ LibIdle
  /\ VidIdle
  /\ \E np \in NumProcessesValues, order \in BOOLEAN, configured \in BOOLEAN,
        gather \in BOOLEAN, n \in 0..MaxItems :
       \E fails \in SUBSET (1..n) :
         mp = [num_processes |-> np, maintain_order |-> order,
               has_initializer |-> configured, gather_results |-> gather,
               items |-> n, fails |-> fails, pc |-> "idle", gen |-> "unstarted",
               error |-> "none", pool |-> "none", poolSize |-> 0,
               pending |-> {}, completed |-> <<>>, yielded |-> <<>>,
               appliedBy |-> [i \in 1..MaxItems |-> "none"], initMain |-> 0,
               initWorkers |-> 0, atReturn |-> 0, again |-> FALSE]

\* Mutant of InitializerInCaller: the caller never runs the initializer.
InitializerInCallerNever(np, configured) == FALSE

\* self.num_processes == 0 and self.initializer_func is not None.
InitializerInCaller(np, configured) == Synchronous(np) /\ configured

\* process(): the initializer in the caller for num_processes == 0, then
\* the generator is created; it is consumed here or handed to the caller.
MPCall ==
  /\ UNCHANGED <<dfVars, libVars, vidVars>>
  /\ mp_pc = "idle"
  /\ mp' = [mp EXCEPT
       !.initMain = IF InitializerInCaller(mp_num_processes, has_initializer)
                      THEN @ + 1 ELSE @,
       !.pc = IF Materializes(gather_results) THEN "running" ELSE "returned",
       !.atReturn = Cardinality(Applied)]

\* The first lines of process_items: the pool, unless num_processes == 0.
\* Pool(...) raises for a count below one, and when a process cannot start.
MPGenStart ==
  /\ UNCHANGED <<dfVars, libVars, vidVars>>
  /\ gen = "unstarted"
  /\ Driven
  /\ IF Synchronous(mp_num_processes)
       THEN mp' = [mp EXCEPT !.gen = "active", !.pending = Items]
       ELSE \E oserror \in BOOLEAN :
              IF oserror \/ (~mp_num_processes.is_none /\ mp_num_processes.value < 1)
                THEN mp' = GenRaises(mp, "pool")
                ELSE mp' = [mp EXCEPT
                       !.gen = "active",
                       !.pool = "running",
                       !.poolSize = PoolProcesses(mp_num_processes),
                       !.initWorkers = IF has_initializer
                                         THEN PoolProcesses(mp_num_processes)
                                         ELSE 0,
                       !.pending = Items]

\* map(function, iterable): the next item is applied in the consumer when
\* its result is asked for.
MPApplyInline ==
  /\ UNCHANGED <<dfVars, libVars, vidVars>>
  /\ gen = "active"
  /\ Driven
  /\ Synchronous(mp_num_processes)
  /\ mp_pending # {}
  /\ LET i == CHOOSE j \in mp_pending : \A h \in mp_pending : j <= h
     IN mp' = IF i \in mp_fails
                THEN GenRaises([mp EXCEPT !.appliedBy[i] = "main"], "function")
                ELSE [mp EXCEPT !.appliedBy[i] = "main",
                                !.yielded = Append(@, Result(i)),
                                !.pending = @ \ {i}]

\* A worker of the pool finishes an item. The workers go on as long as the
\* pool runs, whatever became of the generator.
MPWorkerDone ==
  /\ UNCHANGED <<dfVars, libVars, vidVars>>
  /\ mp_pool = "running"
  /\ \E i \in InFlight(mp_pending, mp_poolSize) :
       mp' = [mp EXCEPT !.completed = Append(@, i),
                        !.pending = @ \ {i},
                        !.appliedBy[i] = "worker"]

\* yield from tqdm(processor(function, iterable)): the next result of the
\* pool's iterator; the exception of a failed item is raised here.
MPYield ==
  /\ UNCHANGED <<dfVars, libVars, vidVars>>
  /\ gen = "active"
  /\ Driven
  /\ mp_pool = "running"
  /\ LET i == NextToYield(maintain_order, mp_completed, Len(mp_yielded))
     IN /\ i # 0
        /\ mp' = IF i \in mp_fails
                   THEN GenRaises(mp, "function")
                   ELSE [mp EXCEPT !.yielded = Append(@, Result(i))]

\* The iterator is exhausted: pool.terminate(), and the generator ends; the
\* gathering call returns the list.
MPGenFinish ==
  /\ UNCHANGED <<dfVars, libVars, vidVars>>
  /\ gen = "active"
  /\ Driven
  /\ Len(mp_yielded) = mp_items
  /\ mp' = [mp EXCEPT
       !.gen = "finished",
       !.pool = IF Synchronous(mp_num_processes) THEN @ ELSE "terminated",
       !.pc = "returned",
       !.atReturn = IF Materializes(gather_results)
                      THEN Cardinality(Applied) ELSE @]

\* The consumer of the lazy iterator stops before the end: the generator is
\* closed where it stands and the lines after the yield never run.
MPConsumerStops ==
  /\ UNCHANGED <<dfVars, libVars, vidVars>>
  /\ ~Materializes(gather_results)
  /\ mp_pc = "returned"
  /\ gen \in {"unstarted", "active"}
  /\ mp' = [mp EXCEPT !.gen = "closed"]

\* The consumer iterates the exhausted generator once more.
MPIterateAgain ==
  /\ UNCHANGED <<dfVars, libVars, vidVars>>
  /\ ~Materializes(gather_results)
  /\ gen = "finished"
  /\ ~mp_again
  /\ mp' = [mp EXCEPT !.again = TRUE,
                      !.yielded = @ \o IterateOver(gen)]

MPNext ==
  \/ MPCall
  \/ MPGenStart
  \/ MPApplyInline
  \/ MPWorkerDone
  \/ MPYield
  \/ MPGenFinish
  \/ MPConsumerStops
  \/ MPIterateAgain

SpecMP == MPInit /\ [][MPNext]_vars

\* ------------------------------------ the claims on MultiProcessor.process
\* C17: with num_processes = 0 no pool is ever created and every item is
\* applied in the calling process; with num_processes = n > 0 the pool has
\* exactly n worker processes; with None it has cpu_count() of them.
C17_PoolSizing ==
  /\ Synchronous(mp_num_processes) =>
       /\ mp_pool = "none"
       /\ mp_poolSize = 0
       /\ \A i \in 1..MaxItems : mp_appliedBy[i] \in {"none", "main"}
       /\ gen = "finished" => \A i \in Items : mp_appliedBy[i] = "main"
  /\ (~mp_num_processes.is_none /\ mp_num_processes.value > 0
        /\ gen \in {"active", "finished"}) =>
       /\ mp_pool # "none"
       /\ mp_poolSize = mp_num_processes.value
       /\ \A i \in 1..MaxItems : mp_appliedBy[i] \in {"none", "worker"}
  /\ (mp_num_processes.is_none /\ gen \in {"active", "finished"}) =>
       /\ mp_pool # "none"
       /\ mp_poolSize = CpuCount

\* A call with num_processes = 1 ran two items to the end in its pool.
C17_Witness ==
  /\ gen = "finished"
  /\ mp_num_processes = Some(1)
  /\ mp_poolSize = 1
  /\ mp_items >= 2
  /\ \A i \in Items : mp_appliedBy[i] = "worker"

\* C18: once the call has raised, or its results have been consumed, have
\* failed or were given up by the consumer, no pool of the call still runs.
C18_PoolTerminated ==
  (\/ mp_pc = "raised"
   \/ mp_pc = "returned" /\ gen \in {"finished", "failed", "closed"})
    => mp_pool # "running"

\* C19: run sequentially or with maintain_order, the results come in the
\* order of the items whatever order the workers completed them in;
\* otherwise the finished results are a permutation of the ordered ones.
C19_Order ==
  /\ (Synchronous(mp_num_processes) \/ maintain_order) =>
       /\ mp_yielded = SubSeq(OrderedResults, 1, Len(mp_yielded))
       /\ gen = "finished" => mp_yielded = OrderedResults
  /\ gen = "finished" =>
       /\ Len(mp_yielded) = mp_items
       /\ {mp_yielded[k] : k \in DOMAIN mp_yielded} = {Result(i) : i \in Items}

\* An ordered pool run whose workers completed the second item first.
C19_Witness ==
  /\ gen = "finished"
  /\ maintain_order
  /\ mp_pool = "terminated"
  /\ Len(mp_completed) >= 2
  /\ mp_completed[1] = 2
  /\ mp_completed[2] = 1
  /\ mp_yielded = OrderedResults

\* C20: a gathering call returns only with every item applied and one
\* result per item; a lazy call returns with no item applied, its iterator
\* gives one result per item until it ends, and nothing when iterated again.
C20_GatherOrLazy ==
  /\ (gather_results /\ mp_pc = "returned") =>
       /\ gen = "finished"
       /\ mp_atReturn = mp_items
       /\ Applied = Items
       /\ Len(mp_yielded) = mp_items
       /\ {mp_yielded[k] : k \in DOMAIN mp_yielded} = {Result(i) : i \in Items}
  /\ (~gather_results /\ mp_pc = "returned") => mp_atReturn = 0
  /\ (~gather_results /\ gen = "unstarted") => Applied = {}
  /\ (~gather_results /\ gen = "finished") =>
       /\ Len(mp_yielded) = mp_items
       /\ {mp_yielded[k] : k \in DOMAIN mp_yielded} = {Result(i) : i \in Items}

\* A lazy iterator over two items, run to its end in a pool and iterated again.
C20_Witness ==
  /\ ~gather_results
  /\ gen = "finished"
  /\ mp_again
  /\ mp_items >= 2
  /\ mp_pool = "terminated"
  /\ Len(mp_yielded) = mp_items

\* C21: a configured initializer has run once in every worker of the pool
\* from the moment the pool exists, hence before any worker handles an item;
\* with num_processes = 0 it has run once in the calling process from the
\* moment process() is entered, hence before the function is applied to any
\* item, whether the results are gathered or iterated lazily.
C21_InitializerOnce ==
  has_initializer =>
    /\ Synchronous(mp_num_processes) =>
         /\ mp_pc # "idle" => mp_initMain = 1
         /\ Applied # {} => mp_initMain = 1
         /\ mp_initWorkers = 0
    /\ ~Synchronous(mp_num_processes) =>
         /\ mp_pool # "none" => mp_initWorkers = mp_poolSize
         /\ Applied # {} => (mp_pool # "none" /\ mp_initWorkers = mp_poolSize)

\* A lazy synchronous call with an initializer whose iterator was run to
\* its end over at least one item.
C21_Witness ==
  /\ has_initializer
  /\ Synchronous(mp_num_processes)
  /\ ~gather_results
  /\ gen = "finished"
  /\ mp_items >= 1
  /\ mp_initMain = 1

\* ------------------- json_to_csv, the factories, the choice of start mode
\* The keys of an entry of the consolidated JSON, in insertion order.
FieldOrder == <<"image_name", "x1", "y1", "x2", "y2", "confidence">>

\* The dictionary built from one detection of an image, with box k.
Entry(name, k) ==
  [image_name |-> name, x1 |-> k, y1 |-> k + 1, x2 |-> k + 2, y2 |-> k + 3,
   confidence |-> k]

Entries == {Entry(name, k) : name \in {"a.jpg", "b.jpg"}, k \in 0..1}

\* Consolidated JSON arrays.
JsonArrays == UNION {[1..n -> Entries] : n \in 0..MaxRows}

\* csv.DictWriter writes str(value): the text of a number, a string as it is.
CellOf(entry, field) ==
  IF field = "image_name" THEN entry[field] ELSE ToString(entry[field])

\* writer.writerows: one row per element, the cells in the order of fieldnames.
RowsOf(data, keys) ==
  [i \in 1..Len(data) |-> [j \in 1..Len(keys) |-> CellOf(data[i], keys[j])]]

\* A file left at csv_path by an earlier export.
StaleFile ==
  [exists |-> TRUE, header |-> FieldOrder,
   rows |-> RowsOf(<<Entry("a.jpg", 0)>>, FieldOrder)]

\* json_to_csv: nothing for an empty json_data; else the file is opened for
\* writing, the header is the keys of the first element, then the rows.
CsvAfter(data, before) ==
  IF data = <<>> THEN before
  ELSE [exists |-> TRUE, header |-> FieldOrder, rows |-> RowsOf(data, FieldOrder)]

\* Arguments tried on LandmarkExtractor.create.
LMNames == {"blazeface", "mediapipe", "ultralight", "BlazeFace", ""}

\* The detectors dictionary of LandmarkExtractor.create, its keys in order.
LMDetectorKeys == <<"blazeface">>

\* LandmarkExtractor.list_available_models().
LMListAvailableModels == <<"blazeface", "mediapipe">>

\* LandmarkExtractor.create(model).
LMCreate(model) ==
  IF model \notin {LMDetectorKeys[i] : i \in DOMAIN LMDetectorKeys}
    THEN [kind |-> "ValueError", model |-> model, available |-> LMDetectorKeys,
          instance |-> 0]
    ELSE [kind |-> "extractor", model |-> model, available |-> <<>>,
          instance |-> 1]

\* Arguments tried on FaceDetector.create: strings, None and a number.
FDArgs ==
  {[type |-> "str", text |-> t] :
     t \in {"blazeface", "mediapipe", "ultralight", "BLAZEFACE", "MediaPipe",
            "", "yolo"}}
    \cup {[type |-> "NoneType", text |-> "None"], [type |-> "int", text |-> "123"]}

\* FaceDetector.list_available_models().
FDListAvailableModels == <<"blazeface", "mediapipe", "ultralight">>

\* FaceDetector.create(model), the n-th construction: a new detector of the
\* class registered under the name, or ValueError naming the model and the
\* available ones.
FDCreate(model, n) ==
  IF model.type = "str" /\ ~CreateRaises(model.text)
    THEN [kind |-> "detector", model |-> model.text, available |-> <<>>,
          instance |-> n]
    ELSE [kind |-> "ValueError", model |-> model.text,
          available |-> FDListAvailableModels, instance |-> 0]

\* mp.get_context(self.start_mode).Pool(...): the context the pool is
\* created with, or the ValueError of a start method the platform lacks.
PoolContext(platform, start_mode) ==
  IF PoolCreationRaises(platform, start_mode, Some(1))
    THEN "ValueError" ELSE start_mode

LibInit ==
  /\ DFIdle
  /\ MPIdle
  /\ VidIdle
  /\ \E data \in JsonArrays, before \in {NoFile, StaleFile}, lm \in LMNames,
        fd \in FDArgs, platform \in Platforms :
       lib = [json_data |-> data, csv_file |-> before, csv_returned |-> FALSE,
              lm_model |-> lm, lm_result |-> NoResult,
              fd_model |-> fd, fd_results |-> <<>>,
              host |-> platform, mp_context |-> NoContext]

\* json_to_csv(json_data, csv_path).
JsonToCsv ==
  /\ UNCHANGED <<dfVars, mpVars, vidVars>>
  /\ ~csv_returned
  /\ lib' = [lib EXCEPT !.csv_file = CsvAfter(json_data, csv_file),
                        !.csv_returned = TRUE]

\* LandmarkExtractor.create(lm_model).
LMCall ==
  /\ UNCHANGED <<dfVars, mpVars, vidVars>>
  /\ lm_result = NoResult
  /\ lib' = [lib EXCEPT !.lm_result = LMCreate(lm_model)]

\* FaceDetector.create(fd_model), once more.
FDCall ==
  /\ UNCHANGED <<dfVars, mpVars, vidVars>>
  /\ Len(fd_results) < MaxCreates
  /\ lib' = [lib EXCEPT !.fd_results =
               Append(fd_results, FDCreate(fd_model, Len(fd_results) + 1))]

\* detect_folder's choice of the start method on this host, handed to
\* MultiProcessor and from there to the pool.
ChooseStartMethod ==
  /\ UNCHANGED <<dfVars, mpVars, vidVars>>
  /\ mp_context = NoContext
  /\ lib' = [lib EXCEPT !.mp_context =
               [method |-> StartMethodFor(host),
                created_with |-> PoolContext(host, StartMethodFor(host))]]

LibNext ==
  \/ JsonToCsv
  \/ LMCall
  \/ FDCall
  \/ ChooseStartMethod

SpecLib == LibInit /\ [][LibNext]_vars

\* What the claims on these calls speak of.
SupportedStartMethods(platform) ==
  IF platform = "Windows" THEN {"spawn"} ELSE {"fork", "spawn", "forkserver"}
ListedLandmarkModels == {LMListAvailableModels[i] : i \in DOMAIN LMListAvailableModels}
ListedDetectorModels == {FDListAvailableModels[i] : i \in DOMAIN FDListAvailableModels}

\* C22: after json_to_csv the file at csv_path holds the field names as its
\* header and one row per element of the array, with the element's values
\* in field order, for the empty array as for any other.
C22_CsvMatchesJson ==
  csv_returned =>
    /\ csv_file.exists
    /\ json_data # <<>> => csv_file.header = FieldOrder
    /\ Len(csv_file.rows) = Len(json_data)
    /\ \A i \in DOMAIN csv_file.rows :
         /\ i <= Len(json_data)
         /\ Len(csv_file.rows[i]) = Len(FieldOrder)
         /\ csv_file.rows[i][1] = json_data[i].image_name
         /\ \A j \in 2..Len(FieldOrder) :
              csv_file.rows[i][j] = ToString(json_data[i][FieldOrder[j]])

\* C23: the start method chosen on a host is one the host supports, it is
\* "spawn" on macOS, and the pool is created with the chosen method.
C23_StartModeSupported ==
  mp_context # NoContext =>
    /\ mp_context.method \in SupportedStartMethods(host)
    /\ host = "Darwin" => mp_context.method = "spawn"
    /\ mp_context.created_with = mp_context.method

\* C24: LandmarkExtractor.create raises ValueError exactly for the names
\* that list_available_models() does not return.
C24_ListedModelsAccepted ==
  lm_result # NoResult =>
    /\ lm_model \in ListedLandmarkModels => lm_result.kind = "extractor"
    /\ lm_result.kind = "ValueError" => lm_model \notin ListedLandmarkModels

\* C25: FaceDetector.create raises ValueError, naming the model and listing
\* the available ones, for every argument that is not exactly "blazeface",
\* "mediapipe" or "ultralight"; for every listed name it returns a
\* detector, a different instance on each call.
C25_FactoryContract ==
  \A i \in DOMAIN fd_results :
    LET r == fd_results[i] IN
      /\ (fd_model.type # "str"
            \/ fd_model.text \notin {"blazeface", "mediapipe", "ultralight"}) =>
           /\ r.kind = "ValueError"
           /\ r.model = fd_model.text
           /\ r.available = <<"blazeface", "mediapipe", "ultralight">>
      /\ (fd_model.type = "str" /\ fd_model.text \in ListedDetectorModels) =>
           /\ r.kind = "detector"
           /\ r.model = fd_model.text
           /\ \A j \in 1..(i - 1) : fd_results[j].instance # r.instance

\* Two detectors were created under the same listed name.
C25_Witness ==
  /\ Len(fd_results) >= 2
  /\ fd_model = [type |-> "str", text |-> "ultralight"]
  /\ fd_results[1].kind = "detector"
  /\ fd_results[2].kind = "detector"
  /\ fd_results[1] # fd_results[2]

\* ------------------------------------------------- extract_from_video
\* self.extract_from_array(frame): the landmarks of the frame of index i.
Landmarks(i) == [frame |-> i]

\* A frame written as it was read.
NoLandmarks == [frame |-> -1]

\* Mutant of ProcessesFrame: the count is tested after it was advanced.
ProcessesFrameOffByOne(count, interval) == (count + 1) % interval = 0

\* frame_count % frame_interval == 0.
ProcessesFrame(count, interval) == count % interval = 0

\* Mutant of DrawsOn: the interval is not looked at.
DrawsOnNextFrame(count, interval, idx, landmarks) == idx < Len(landmarks)

\* frame_count % frame_interval == 0 and landmarks_idx < len(all_frame_landmarks).
DrawsOn(count, interval, idx, landmarks) ==
  count % interval = 0 /\ idx < Len(landmarks)

VidInit ==
  /\ DFIdle
  /\ MPIdle
  /\ LibIdle
  /\ \E n \in 0..MaxFrames, ok \in BOOLEAN, k \in 1..MaxInterval,
        annotate \in BOOLEAN :
       \E bad \in 0..n :
         vid = [vid_frames |-> n, loadable |-> ok, frame_interval |-> k,
                save_annotated |-> annotate, raises_at |-> bad, pc |-> "start",
                frame_count |-> 0, all_frame_landmarks |-> <<>>,
                extracted |-> <<>>, cap |-> "none", out_frame_count |-> 0,
                landmarks_idx |-> 0, out_frames |-> <<>>, out_cap |-> "none",
                out_writer |-> "none"]

\* cap = self._load_video(video_path): ValueError for a video that does
\* not exist or does not open.
VidLoad ==
  /\ UNCHANGED <<dfVars, mpVars, libVars>>
  /\ vid_pc = "start"
  /\ vid' = IF vid_loadable
              THEN [vid EXCEPT !.cap = "open", !.pc = "reading"]
              ELSE [vid EXCEPT !.pc = "raised"]

\* One iteration of the loop that got a frame: extract_from_array on the
\* frames the interval selects; when it raises, finally releases the
\* capture and the exception leaves the call.
VidReadFrame ==
  /\ UNCHANGED <<dfVars, mpVars, libVars>>
  /\ vid_pc = "reading"
  /\ frame_count < vid_frames
  /\ vid' =
       IF ProcessesFrame(frame_count, frame_interval)
         THEN IF vid_raises_at = frame_count + 1
                THEN [vid EXCEPT !.extracted = Append(@, frame_count),
                                 !.cap = "released",
                                 !.pc = "raised"]
                ELSE [vid EXCEPT !.extracted = Append(@, frame_count),
                                 !.all_frame_landmarks =
                                    Append(@, Landmarks(frame_count)),
                                 !.frame_count = @ + 1]
         ELSE [vid EXCEPT !.frame_count = @ + 1]

\* cap.read() gives no frame: break, and finally releases the capture.
VidEndOfVideo ==
  /\ UNCHANGED <<dfVars, mpVars, libVars>>
  /\ vid_pc = "reading"
  /\ frame_count >= vid_frames
  /\ vid' = [vid EXCEPT !.cap = "released", !.pc = "saving"]

\* The results are saved if asked; then _save_annotated_video opens the
\* video again and a writer, or the call returns.
VidSave ==
  /\ UNCHANGED <<dfVars, mpVars, libVars>>
  /\ vid_pc = "saving"
  /\ \E writes_json \in BOOLEAN, writable \in BOOLEAN :
       vid' = IF writes_json /\ ~writable
                THEN [vid EXCEPT !.pc = "raised"]
                ELSE IF vid_save_annotated
                       THEN [vid EXCEPT !.out_cap = "open", !.out_writer = "open",
                                        !.out_frame_count = 0,
                                        !.landmarks_idx = 0, !.pc = "writing"]
                       ELSE [vid EXCEPT !.pc = "done"]

\* One iteration of the loop of _save_annotated_video that got a frame.
VidWriteFrame ==
  /\ UNCHANGED <<dfVars, mpVars, libVars>>
  /\ vid_pc = "writing"
  /\ out_frame_count < vid_frames
  /\ vid' =
       IF DrawsOn(out_frame_count, frame_interval, landmarks_idx,
                  all_frame_landmarks)
         THEN [vid EXCEPT !.out_frames =
                             Append(@, [frame |-> out_frame_count,
                                        drawn |-> all_frame_landmarks[landmarks_idx + 1]]),
                          !.landmarks_idx = @ + 1,
                          !.out_frame_count = @ + 1]
         ELSE [vid EXCEPT !.out_frames =
                             Append(@, [frame |-> out_frame_count,
                                        drawn |-> NoLandmarks]),
                          !.out_frame_count = @ + 1]

\* No frame is left: finally releases the capture and the writer, and
\* extract_from_video returns.
VidWriteEnd ==
  /\ UNCHANGED <<dfVars, mpVars, libVars>>
  /\ vid_pc = "writing"
  /\ out_frame_count >= vid_frames
  /\ vid' = [vid EXCEPT !.out_cap = "released", !.out_writer = "released",
                        !.pc = "done"]

VidNext ==
  \/ VidLoad
  \/ VidReadFrame
  \/ VidEndOfVideo
  \/ VidSave
  \/ VidWriteFrame
  \/ VidWriteEnd

SpecVideo == VidInit /\ [][VidNext]_vars

\* ceil(n / k).
CeilDiv(n, k) == (n + k - 1) \div k

\* C29: extract_from_array is called on the frames whose index is a
\* multiple of frame_interval, in order, and on no other; a call whose loop
\* ran to the end has ceil(N / k) entries, the i-th being the landmarks of
\* frame i * k; whenever the call has left the loop, also by an exception
\* of extract_from_array, the capture is released.
C29_EveryKthFrame ==
  /\ \A i \in DOMAIN extracted : extracted[i] = (i - 1) * frame_interval
  /\ vid_pc = "reading" =>
       Len(extracted) = CeilDiv(frame_count, frame_interval)
  /\ vid_pc \in {"saving", "writing", "done"} =>
       /\ Len(extracted) = CeilDiv(vid_frames, frame_interval)
       /\ Len(all_frame_landmarks) = CeilDiv(vid_frames, frame_interval)
       /\ \A i \in DOMAIN all_frame_landmarks :
            all_frame_landmarks[i] = Landmarks((i - 1) * frame_interval)
  /\ vid_pc \in {"saving", "writing", "done", "raised"} => cap # "open"
  /\ (vid_pc \in {"saving", "writing", "done", "raised"} /\ vid_loadable) =>
       cap = "released"

\* A video whose length is no multiple of the interval was read to its end.
C29_Witness ==
  /\ vid_pc = "done"
  /\ frame_interval >= 2
  /\ vid_frames % frame_interval # 0
  /\ Len(all_frame_landmarks) >= 2
  /\ cap = "released"

\* C30: the annotated video has the frames of the input in order, frame
\* j * k with all_frame_landmarks[j] drawn on it and every other frame as it
\* was read; landmarks_idx never passes the end of the list; a written
\* video has as many frames as the input.
C30_AnnotatedVideo ==
  /\ landmarks_idx <= Len(all_frame_landmarks)
  /\ \A i \in DOMAIN out_frames :
       /\ out_frames[i].frame = i - 1
       /\ out_frames[i].drawn =
            IF (i - 1) % frame_interval = 0
              THEN all_frame_landmarks[((i - 1) \div frame_interval) + 1]
              ELSE NoLandmarks
  /\ (vid_pc = "done" /\ vid_save_annotated) =>
       /\ Len(out_frames) = vid_frames
       /\ landmarks_idx = Len(all_frame_landmarks)
       /\ out_cap = "released"
       /\ out_writer = "released"

\* An annotated video of at least three frames written with an interval of
\* two or more.
C30_Witness ==
  /\ vid_pc = "done"
  /\ vid_save_annotated
  /\ frame_interval >= 2
  /\ vid_frames >= 3
  /\ Len(out_frames) = vid_frames
  /\ landmarks_idx >= 2

====
